---- MODULE Spec2Model ----
(***************************************************************************)
(* Model of DataDriftReportLambdaversion6/app.py: the Lambda handler that  *)
(* loads a reference and a current dataset from S3, runs the drift         *)
(* analysis, stores the HTML report in the reports bucket and mails it.    *)
(*                                                                         *)
(* Several handler invocations run concurrently.  Each blocking call of    *)
(* the handler (S3 get, analysis, S3 put, SES send) is one atomic step;    *)
(* the steps of different invocations interleave freely.  A call that      *)
(* raises ends the invocation, because the handler has no try/except: the  *)
(* exception leaves lambda_handler with the frame that raised it.          *)
(***************************************************************************)
EXTENDS Integers, Sequences, FiniteSets, TLC

\* ---------------------------------------------------------------- bounds
\* Longest batch of trigger records in one event.
MaxRecords == 2
\* Size of the pool uuid.uuid4() draws from.
MaxUuid == 3
\* Largest number of columns of a dataset pair given to the analysis.
MaxColumns == 4

\* ------------------------------------------------------------- constants
CUR_DATA_BUCKET == "dq6-cur-data-s3"
REF_DATA_BUCKET == "dq6-ref-data-s3"
REPORTS_BUCKET == "dq6-reports-s3"
ref_data_key == "ref.csv"
\* A bucket other than the expected one, as a trigger may name it.
OtherBucket == "other-bucket"
\* Object keys a trigger record may name.
ObjectKeys == {"a.csv"}

\* The handler invocations in flight: two, the concurrent pair (or the
\* delivery and the re-delivery of one trigger) the concurrency claims are about.
Invocations == {1, 2}
UUIDs == 1..MaxUuid

\* The trigger records and the events (batches) built from them.
Records == [bucket : {CUR_DATA_BUCKET, OtherBucket}, key : ObjectKeys]
Events == UNION {[1..n -> Records] : n \in 0..MaxRecords}

\* ---------------------------------------------------------------- values
NoData == [bucket |-> "none", key |-> "none"]
\* The DataFrame read from an object: identified by the object it came from.
DataFrame(bucket, key) == [bucket |-> bucket, key |-> key]

NoReport == [reference_data |-> NoData, current_data |-> NoData,
             dataset_drift |-> FALSE]
NoBody == [encoding |-> "none", report |-> NoReport]

\* What a call hands back: a value, or an exception raised inside it.
Returned(v) == [ok |-> TRUE, errorType |-> "none", value |-> v]
Raised(e, v) == [ok |-> FALSE, errorType |-> e, value |-> v]

\* report.get_html(): the document rendered from the report.  Rendering a
\* report that Report.run produced is taken not to raise.
get_html(r) == [encoding |-> "str", report |-> r]
\* Variant in which the bytes are those of an empty document.
encode_utf8_empty(h) == [encoding |-> "utf-8", report |-> NoReport]

\* str.encode('utf-8') of the rendered document.
encode_utf8(h) == [encoding |-> "utf-8", report |-> h.report]

\* Variant of the report name that does not use the uuid.
ReportKeyFixed(u) == "data_quality_report.html"

\* f"data_drift_report_{uuid.uuid4().hex}.html"
ReportKeyName(u) == "data_drift_report_" \o ToString(u) \o ".html"

NoKey == "none"

VARIABLES
    pc,             \* position of each invocation in lambda_handler
    event,          \* the event each invocation was called with
    idx,            \* position of the for-loop over event['Records']
    reference_data, \* local of lambda_handler
    current_data,   \* local of lambda_handler
    report,         \* local of lambda_handler
    report_key,     \* local of lambda_handler
    html_report,    \* local of lambda_handler
    result,         \* what the invocation handed to its caller
    calls,          \* per invocation: the blocking calls made, in order
    stages,         \* per invocation: the stages entered, in order
    store,          \* the reports bucket: key -> body
    issued,         \* values uuid4() has produced so far
    analysis        \* one analysis taken alone: its inputs and its verdict

vars == <<pc, event, idx, reference_data, current_data, report, report_key,
          html_report, result, calls, stages, store, issued, analysis>>


\* ------------------------------------------------------ results and calls
NoResult ==
    [kind |-> "none", statusCode |-> 0, message |-> "", report_key |-> NoKey,
     email_response |-> "none", errorType |-> "none", raisedIn |-> "none"]

\* Variant of the return statement that reports the attachment's name as
\* the report key.
ProcessedResultAttachmentName(key, response) ==
    [kind |-> "returned", statusCode |-> 200,
     message |-> "Data drift detected, report generated, saved to S3, and emailed successfully",
     report_key |-> "data_quality_report.html", email_response |-> response,
     errorType |-> "none", raisedIn |-> "none"]

\* Variant of the return statement whose message follows the verdict of the
\* report stored under key.
ProcessedResultByVerdict(key, response) ==
    [kind |-> "returned", statusCode |-> 200,
     message |-> IF store[key].report.dataset_drift
                 THEN "Data drift detected, report generated, saved to S3, and emailed successfully"
                 ELSE "No data drift detected, report generated, saved to S3, and emailed successfully",
     report_key |-> key, email_response |-> response,
     errorType |-> "none", raisedIn |-> "none"]

\* The return statement of the pipeline branch (lines 111-118).
ProcessedResult(key, response) ==
    [kind |-> "returned", statusCode |-> 200,
     message |-> "Data drift detected, report generated, saved to S3, and emailed successfully",
     report_key |-> key, email_response |-> response,
     errorType |-> "none", raisedIn |-> "none"]

\* The return statement after the loop (lines 122-125).
NoFilesResult ==
    [kind |-> "returned", statusCode |-> 200,
     message |-> "No files processed from the dq6-cur-data-s3 bucket.",
     report_key |-> NoKey, email_response |-> "none",
     errorType |-> "none", raisedIn |-> "none"]

\* Variant in which the handler catches everything and raises a generic
\* error of its own.
UnhandledExceptionGeneric(e, fn) ==
    [kind |-> "raised", statusCode |-> 0, message |-> "", report_key |-> NoKey,
     email_response |-> "none", errorType |-> "Exception",
     raisedIn |-> "lambda_handler"]

\* An exception that leaves lambda_handler: its type and the function of
\* app.py whose frame raised it.
UnhandledException(e, fn) ==
    [kind |-> "raised", statusCode |-> 0, message |-> "", report_key |-> NoKey,
     email_response |-> "none", errorType |-> e, raisedIn |-> fn]

\* One entry of an invocation's call log.
Call(op, bucket, key, payload, out) ==
    [op |-> op, bucket |-> bucket, key |-> key, payload |-> payload,
     ok |-> out.ok, errorType |-> out.errorType]

\* ------------------------------------------------- the functions of app.py
\* load_data_from_s3: get_object may raise (missing object), read_csv may
\* raise (malformed content), otherwise the DataFrame is returned.
load_data_from_s3(bucket, key) ==
    {Returned(DataFrame(bucket, key)),
     Raised("NotFound", NoData), Raised("ParseError", NoData)}

\* DataDriftPreset() is built without arguments (line 33), so the share of
\* drifted columns that makes the dataset drifted is the preset's own
\* default, one half, in percent.
DriftSharePercent == 50

\* What the per-column tests can find in a dataset pair: the number of
\* columns and the number of them found drifted.
ColumnDrifts == {c \in (1..MaxColumns) \X (0..MaxColumns) : c[2] <= c[1]}

\* The dataset verdict of the preset: the share of drifted columns reaches
\* the preset's share.  No configuration of the caller enters it.
DatasetDrift(number_of_columns, number_of_drifted_columns) ==
    number_of_drifted_columns * 100 >= number_of_columns * DriftSharePercent

\* Variant in which Report.run is given the two datasets in the other roles.
generate_drift_report_swapped(reference, current) ==
    {Returned([reference_data |-> current, current_data |-> reference,
               dataset_drift |-> DatasetDrift(c[1], c[2])]) : c \in ColumnDrifts}
    \cup {Raised("SchemaMismatch", NoReport)}

\* generate_drift_report: Report.run may raise on incompatible columns,
\* otherwise the report over (reference, current) is returned, with the
\* verdict the contents of the two datasets give.
generate_drift_report(reference, current) ==
    {Returned([reference_data |-> reference, current_data |-> current,
               dataset_drift |-> DatasetDrift(c[1], c[2])]) : c \in ColumnDrifts}
    \cup {Raised("SchemaMismatch", NoReport)}

\* s3_client.put_object as called by save_report_to_s3.
put_object(bucket, key, body) ==
    {Returned("ack"), Raised("StoreUnavailable", "none")}

\* ses_client.send_raw_email as called by send_email_with_attachment.
send_raw_email(attachment) ==
    {Returned("deliveryReceipt"), Raised("DeliveryError", "none")}

\* uuid.uuid4(): a value no earlier call has produced.
uuid4 == UUIDs \ issued

\* Variant of the bucket test that lets every record through.
IsExpectedBucketAny(bucket_name) == bucket_name = bucket_name

\* The bucket test of line 83.
IsExpectedBucket(bucket_name) == bucket_name = CUR_DATA_BUCKET

\* --------------------------------------------------------- control flow
\* The stage of the pipeline a position of the handler belongs to.
Stage(p) == IF p \in {"LoadingRef", "LoadingCur"} THEN "Loading" ELSE p

\* Variant of the statement order that mails the report before storing it.
OnReturnNotifyFirst(p) ==
    CASE p = "LoadingRef" -> "LoadingCur"
      [] p = "LoadingCur" -> "Analyzing"
      [] p = "Analyzing"  -> "Rendering"
      [] p = "Rendering"  -> "Notifying"
      [] p = "Notifying"  -> "Persisting"
      [] p = "Persisting" -> "Completed"

\* Where the handler goes when the call at position p returns normally.
OnReturn(p) ==
    CASE p = "LoadingRef" -> "LoadingCur"
      [] p = "LoadingCur" -> "Analyzing"
      [] p = "Analyzing"  -> "Rendering"
      [] p = "Rendering"  -> "Persisting"
      [] p = "Persisting" -> "Notifying"
      [] p = "Notifying"  -> "Completed"

\* Variant in which a raising call is swallowed (except: pass) and the
\* handler carries on with the next statement.
OnRaiseContinue(p) ==
    CASE p = "LoadingRef" -> "LoadingCur"
      [] p = "LoadingCur" -> "Analyzing"
      [] p = "Analyzing"  -> "Rendering"
      [] p = "Persisting" -> "Notifying"
      [] p = "Notifying"  -> "Completed"

\* Variant in which a raising call is tried again.
OnRaiseRetry(p) == p

\* Where the handler goes when the call at position p raises: no statement
\* of lambda_handler is inside a try, so the exception leaves the handler.
OnRaise(p) == "Failed"

\* Variant in which the variable is a module-level global that the
\* invocations share (the first invocation's slot).
SharedGlobal(v, i) == v[1]

\* A local variable of lambda_handler: each invocation reads its own frame.
Local(v, i) == v[i]

Goto(i, p) ==
    /\ pc' = [pc EXCEPT ![i] = p]
    /\ stages' = [stages EXCEPT ![i] =
                    IF Stage(p) = Stage(pc[i]) THEN @ ELSE Append(@, Stage(p))]

\* The call at the current position raised e inside function fn.
Raise(i, e, fn) ==
    /\ Goto(i, OnRaise(pc[i]))
    /\ result' = [result EXCEPT ![i] =
                    IF OnRaise(pc[i]) = "Failed"
                    THEN UnhandledException(e, fn) ELSE @]

\* No analysis is being looked at alone.
NoAnalysis ==
    [number_of_columns |-> 0, number_of_drifted_columns |-> 0,
     share_config |-> 0, done |-> FALSE, dataset_drift |-> FALSE]

TypeOK ==
    /\ pc \in [Invocations -> {"idle", "Received", "LoadingRef", "LoadingCur",
                               "Analyzing", "Rendering", "Persisting",
                               "Notifying", "Completed", "Failed", "Ignored"}]
    /\ event \in [Invocations -> Events]
    /\ idx \in [Invocations -> 1..(MaxRecords + 1)]
    /\ issued \subseteq UUIDs
    /\ DOMAIN store \subseteq {ReportKeyName(u) : u \in UUIDs}

Init ==
    /\ pc = [i \in Invocations |-> "idle"]
    /\ event = [i \in Invocations |-> << >>]
    /\ idx = [i \in Invocations |-> 1]
    /\ reference_data = [i \in Invocations |-> NoData]
    /\ current_data = [i \in Invocations |-> NoData]
    /\ report = [i \in Invocations |-> NoReport]
    /\ report_key = [i \in Invocations |-> NoKey]
    /\ html_report = [i \in Invocations |-> NoBody]
    /\ result = [i \in Invocations |-> NoResult]
    /\ calls = [i \in Invocations |-> << >>]
    /\ stages = [i \in Invocations |-> << >>]
    /\ store = [k \in {} |-> NoBody]
    /\ issued = {}
    /\ analysis = NoAnalysis

\* The runtime calls lambda_handler(event, context).
Invoke(i) ==
    /\ pc[i] = "idle"
    /\ \E ev \in Events : event' = [event EXCEPT ![i] = ev]
    /\ Goto(i, "Received")
    /\ UNCHANGED analysis
    /\ UNCHANGED <<idx, reference_data, current_data, report, report_key,
                   html_report, result, calls, store, issued>>

\* Variant in which the else branch leaves the loop.
SkipToEnd(ev, k) == Len(ev) + 1

\* Variant in which the loop does not move on.
SkipToSame(ev, k) == k

\* The for loop of line 78 after the else branch: on to the next record.
SkipTo(ev, k) == k + 1

\* Lines 78-83 and 119-120: a record of another bucket is skipped.
SkipRecord(i) ==
    /\ pc[i] = "Received"
    /\ idx[i] <= Len(event[i])
    /\ ~IsExpectedBucket(event[i][idx[i]].bucket)
    /\ idx' = [idx EXCEPT ![i] = SkipTo(event[i], @)]
    /\ UNCHANGED analysis
    /\ UNCHANGED <<pc, event, reference_data, current_data, report,
                   report_key, html_report, result, calls, stages, store,
                   issued>>

\* Lines 78-87: a record of the expected bucket starts the pipeline.
AcceptRecord(i) ==
    /\ pc[i] = "Received"
    /\ idx[i] <= Len(event[i])
    /\ IsExpectedBucket(event[i][idx[i]].bucket)
    /\ Goto(i, "LoadingRef")
    /\ UNCHANGED analysis
    /\ UNCHANGED <<event, idx, reference_data, current_data, report,
                   report_key, html_report, result, calls, store, issued>>

\* Lines 122-125: the loop ran out of records.
ReturnNoFiles(i) ==
    /\ pc[i] = "Received"
    /\ idx[i] > Len(event[i])
    /\ Goto(i, "Ignored")
    /\ result' = [result EXCEPT ![i] = NoFilesResult]
    /\ UNCHANGED analysis
    /\ UNCHANGED <<event, idx, reference_data, current_data, report,
                   report_key, html_report, calls, store, issued>>

\* Line 90.
LoadReference(i) ==
    /\ pc[i] = "LoadingRef"
    /\ \E out \in load_data_from_s3(REF_DATA_BUCKET, ref_data_key) :
         /\ calls' = [calls EXCEPT ![i] =
               Append(@, Call("get_object", REF_DATA_BUCKET, ref_data_key,
                              NoBody, out))]
         /\ IF out.ok
            THEN /\ reference_data' = [reference_data EXCEPT ![i] = out.value]
                 /\ Goto(i, OnReturn(pc[i]))
                 /\ UNCHANGED result
            ELSE /\ Raise(i, out.errorType, "load_data_from_s3")
                 /\ UNCHANGED reference_data
    /\ UNCHANGED analysis
    /\ UNCHANGED <<event, idx, current_data, report, report_key, html_report,
                   store, issued>>

\* Line 91.
LoadCurrent(i) ==
    /\ pc[i] = "LoadingCur"
    /\ LET bucket_name == event[i][idx[i]].bucket
           object_key == event[i][idx[i]].key
       IN \E out \in load_data_from_s3(bucket_name, object_key) :
            /\ calls' = [calls EXCEPT ![i] =
                  Append(@, Call("get_object", bucket_name, object_key,
                                 NoBody, out))]
            /\ IF out.ok
               THEN /\ current_data' = [current_data EXCEPT ![i] = out.value]
                    /\ Goto(i, OnReturn(pc[i]))
                    /\ UNCHANGED result
               ELSE /\ Raise(i, out.errorType, "load_data_from_s3")
                    /\ UNCHANGED current_data
    /\ UNCHANGED analysis
    /\ UNCHANGED <<event, idx, reference_data, report, report_key,
                   html_report, store, issued>>

\* Line 94.
Analyze(i) ==
    /\ pc[i] = "Analyzing"
    /\ \E out \in generate_drift_report(Local(reference_data, i), Local(current_data, i)) :
         /\ calls' = [calls EXCEPT ![i] =
               Append(@, Call("report_run", "none", "none", NoBody, out))]
         /\ IF out.ok
            THEN /\ report' = [report EXCEPT ![i] = out.value]
                 /\ Goto(i, OnReturn(pc[i]))
                 /\ UNCHANGED result
            ELSE /\ Raise(i, out.errorType, "generate_drift_report")
                 /\ UNCHANGED report
    /\ UNCHANGED analysis
    /\ UNCHANGED <<event, idx, reference_data, current_data, report_key,
                   html_report, store, issued>>

\* Lines 97 and 41: the report gets its name and is rendered.
Render(i) ==
    /\ pc[i] = "Rendering"
    /\ \E u \in uuid4 :
         /\ issued' = issued \cup {u}
         /\ report_key' = [report_key EXCEPT ![i] = ReportKeyName(u)]
    /\ html_report' = [html_report EXCEPT ![i] = get_html(Local(report, i))]
    /\ Goto(i, OnReturn(pc[i]))
    /\ UNCHANGED analysis
    /\ UNCHANGED <<event, idx, reference_data, current_data, report, result,
                   calls, store>>

\* Line 42, called from line 100.
Persist(i) ==
    /\ pc[i] = "Persisting"
    /\ LET key == Local(report_key, i)
           body == Local(html_report, i)
       IN \E out \in put_object(REPORTS_BUCKET, key, body) :
            /\ calls' = [calls EXCEPT ![i] =
                  Append(@, Call("put_object", REPORTS_BUCKET, key, body, out))]
            /\ IF out.ok
               THEN /\ store' = [k \in DOMAIN store \cup {key} |->
                                   IF k = key THEN body ELSE store[k]]
                    /\ Goto(i, OnReturn(pc[i]))
                    /\ UNCHANGED result
               ELSE /\ Raise(i, out.errorType, "save_report_to_s3")
                    /\ UNCHANGED store
    /\ UNCHANGED analysis
    /\ UNCHANGED <<event, idx, reference_data, current_data, report,
                   report_key, html_report, issued>>

\* Lines 103-118: the mail is sent and the handler returns.
Notify(i) ==
    /\ pc[i] = "Notifying"
    /\ LET attachment == encode_utf8(Local(html_report, i))
       IN \E out \in send_raw_email(attachment) :
            /\ calls' = [calls EXCEPT ![i] =
                  Append(@, Call("send_raw_email", "none",
                                 "data_quality_report.html", attachment, out))]
            /\ IF out.ok
               THEN /\ Goto(i, OnReturn(pc[i]))
                    /\ result' = [result EXCEPT ![i] =
                          IF OnReturn(pc[i]) = "Completed"
                          THEN ProcessedResult(Local(report_key, i), out.value)
                          ELSE @]
               ELSE Raise(i, out.errorType, "send_email_with_attachment")
    /\ UNCHANGED analysis
    /\ UNCHANGED <<event, idx, reference_data, current_data, report,
                   report_key, html_report, store, issued>>

Next ==
    \E i \in Invocations :
        \/ Invoke(i)
        \/ SkipRecord(i)
        \/ AcceptRecord(i)
        \/ ReturnNoFiles(i)
        \/ LoadReference(i)
        \/ LoadCurrent(i)
        \/ Analyze(i)
        \/ Render(i)
        \/ Persist(i)
        \/ Notify(i)

Spec == Init /\ [][Next]_vars

\* The steps of invocation i once the runtime has called the handler: the
\* handler's own statements and its blocking calls, each of which returns or
\* raises.
Step(i) ==
    \/ SkipRecord(i)
    \/ AcceptRecord(i)
    \/ ReturnNoFiles(i)
    \/ LoadReference(i)
    \/ LoadCurrent(i)
    \/ Analyze(i)
    \/ Render(i)
    \/ Persist(i)
    \/ Notify(i)

\* One invocation followed from the runtime's call to its end: the handler
\* keeps running and every blocking call comes back.
NextOne == Invoke(1) \/ Step(1)

FairSpecOne == Init /\ [][NextOne]_vars /\ WF_vars(Step(1))

\* ------------------------------------------------- the analysis taken alone
\* Share thresholds, in percent, a caller may want the verdict taken with.
ShareConfigs == {0, 25, 50, 75, 100}

\* One call of generate_drift_report(reference_data, current_data) on a
\* dataset pair whose per-column tests find c[2] of c[1] columns drifted.
\* The function has no parameter for a configuration (line 29).
InitAnalyzer ==
    /\ Init!1 /\ Init!2 /\ Init!3 /\ Init!4 /\ Init!5 /\ Init!6 /\ Init!7
    /\ Init!8 /\ Init!9 /\ Init!10 /\ Init!11 /\ Init!12 /\ Init!13
    /\ \E c \in ColumnDrifts, t \in ShareConfigs :
          analysis = [number_of_columns |-> c[1],
                      number_of_drifted_columns |-> c[2],
                      share_config |-> t, done |-> FALSE,
                      dataset_drift |-> FALSE]

RunAnalysis ==
    /\ ~analysis.done
    /\ analysis' = [analysis EXCEPT
                      !.done = TRUE,
                      !.dataset_drift = DatasetDrift(analysis.number_of_columns,
                                                     analysis.number_of_drifted_columns)]
    /\ UNCHANGED <<pc, event, idx, reference_data, current_data, report,
                   report_key, html_report, result, calls, stages, store,
                   issued>>

NextAnalyzer == RunAnalysis

SpecAnalyzer == InitAnalyzer /\ [][NextAnalyzer]_vars


\* ------------------------------------------------------------ vocabulary
\* Number of records of a batch that name the expected source.
MatchingRecords(ev) ==
    Cardinality({k \in DOMAIN ev : ev[k].bucket = CUR_DATA_BUCKET})

\* Positions in invocation i's call log of the calls of operation op.
CallsOf(i, op) == {k \in DOMAIN calls[i] : calls[i][k].op = op}
OkCallsOf(i, op) == {k \in CallsOf(i, op) : calls[i][k].ok}
FailedCallsOf(i, op) == {k \in CallsOf(i, op) : ~calls[i][k].ok}

\* The loads of the reference and of the current dataset.
RefLoads(i) == {k \in CallsOf(i, "get_object") :
                  calls[i][k].bucket = REF_DATA_BUCKET}
CurLoads(i) == {k \in CallsOf(i, "get_object") :
                  calls[i][k].bucket # REF_DATA_BUCKET}

Terminal == {"Completed", "Failed", "Ignored"}
BeforePut == {"idle", "Received", "LoadingRef", "LoadingCur", "Analyzing",
              "Rendering", "Persisting"}

\* The order of the stages of one run.
StageOrder == <<"Received", "Loading", "Analyzing", "Rendering", "Persisting",
                "Notifying", "Completed">>

IsPrefix(s, t) == /\ Len(s) <= Len(t)
                  /\ \A k \in 1..Len(s) : s[k] = t[k]

\* ----------------------------------------------------------------- claims

\* C1: an invocation whose batch has no record naming CUR_DATA_BUCKET makes
\* no call to the loader, the store or the dispatcher, never fails, and the
\* result it returns is the no-op result.
C1_NoMatchIsNoOp ==
    \A i \in Invocations :
        (pc[i] # "idle" /\ MatchingRecords(event[i]) = 0) =>
            /\ calls[i] = << >>
            /\ pc[i] \in {"Received", "Ignored"}
            /\ pc[i] = "Ignored" => result[i] = NoFilesResult
            /\ pc[i] = "Received" => result[i] = NoResult
            /\ report_key[i] = NoKey

\* A non-empty batch without a matching record has been answered.
C1_Witness ==
    \E i \in Invocations :
        /\ pc[i] = "Ignored"
        /\ Len(event[i]) >= 2
        /\ MatchingRecords(event[i]) = 0

\* C2 (as claimed): an invocation that ended without a failing call has
\* stored one report and sent one notification per record that names the
\* expected source.
C2_OneRunPerMatchingRecord ==
    \A i \in Invocations :
        (pc[i] \in {"Completed", "Ignored"}) =>
            /\ Cardinality(OkCallsOf(i, "put_object")) = MatchingRecords(event[i])
            /\ Cardinality(OkCallsOf(i, "send_raw_email")) = MatchingRecords(event[i])

\* C3 (as claimed): when the put succeeded and the send then failed, the
\* handler returns a result that carries the stored report key and the
\* delivery error.
C3_DegradedSuccess ==
    \A i \in Invocations :
        (OkCallsOf(i, "put_object") # {} /\ FailedCallsOf(i, "send_raw_email") # {}) =>
            /\ result[i].kind = "returned"
            /\ result[i].report_key = report_key[i]
            /\ result[i].errorType = "DeliveryError"

\* C4: a run has an artifact in the store only if its two loads and its
\* analysis succeeded; a run with a failed load or analysis, or one that has
\* not yet completed its put, has no artifact in the store and has sent no
\* notification.  Every artifact in the store belongs to a run that put it.
C4_NoPartialArtifact ==
    /\ \A i \in Invocations :
        /\ (report_key[i] \in DOMAIN store \/ CallsOf(i, "put_object") # {}) =>
              /\ OkCallsOf(i, "get_object") = {1, 2}
              /\ RefLoads(i) = {1} /\ CurLoads(i) = {2}
              /\ OkCallsOf(i, "report_run") = {3}
        /\ ( \/ FailedCallsOf(i, "get_object") # {}
             \/ FailedCallsOf(i, "report_run") # {}
             \/ pc[i] \in BeforePut ) =>
              /\ report_key[i] \notin DOMAIN store
              /\ OkCallsOf(i, "put_object") = {}
              /\ CallsOf(i, "send_raw_email") = {}
    /\ DOMAIN store =
         {report_key[i] : i \in {j \in Invocations : OkCallsOf(j, "put_object") # {}}}

\* A run was aborted by its analysis while another run's artifact is stored.
C4_Witness ==
    \E i, j \in Invocations :
        /\ pc[i] = "Failed"
        /\ FailedCallsOf(i, "report_run") # {}
        /\ report_key[j] \in DOMAIN store

\* C5: the stages a run has entered are an initial part of Received,
\* Loading, Analyzing, Rendering, Persisting, Notifying, Completed (ended by
\* Failed when a call raised, or Received then Ignored for a batch without a
\* match), and a send is made only after that run's put succeeded, the
\* artifact being in the store.
C5_StageOrder ==
    \A i \in Invocations :
        /\ \/ IsPrefix(stages[i], StageOrder)
           \/ /\ Len(stages[i]) >= 2
              /\ stages[i][Len(stages[i])] = "Failed"
              /\ IsPrefix(SubSeq(stages[i], 1, Len(stages[i]) - 1), StageOrder)
              /\ Len(stages[i]) - 1 < Len(StageOrder)
           \/ stages[i] = <<"Received", "Ignored">>
        /\ \A k \in CallsOf(i, "send_raw_email") :
              /\ \E m \in OkCallsOf(i, "put_object") : m < k
              /\ report_key[i] \in DOMAIN store

\* A run went through every stage.
C5_Witness ==
    \E i \in Invocations :
        /\ pc[i] = "Completed"
        /\ stages[i] = StageOrder
        /\ OkCallsOf(i, "send_raw_email") # {}


\* The function of app.py that makes the calls of operation op, and the stage
\* of the pipeline that function is called in.
FrameOf(op) ==
    CASE op = "get_object"     -> "load_data_from_s3"
      [] op = "report_run"     -> "generate_drift_report"
      [] op = "put_object"     -> "save_report_to_s3"
      [] op = "send_raw_email" -> "send_email_with_attachment"

StageOfFrame(fn) ==
    CASE fn = "load_data_from_s3"          -> "Loading"
      [] fn = "generate_drift_report"      -> "Analyzing"
      [] fn = "save_report_to_s3"          -> "Persisting"
      [] fn = "send_email_with_attachment" -> "Notifying"
      [] OTHER                             -> "none"

\* C6: the runs that have named their report hold pairwise distinct keys, and
\* every key in the store was put exactly once, by exactly one run: no put
\* overwrites a stored artifact.  (uuid4 is taken to produce a value no
\* earlier call produced.)
C6_DistinctKeysWriteOnce ==
    /\ \A i, j \in Invocations :
          (i # j /\ report_key[i] # NoKey /\ report_key[j] # NoKey) =>
              report_key[i] # report_key[j]
    /\ \A k \in DOMAIN store :
          Cardinality({c \in {<<i, m>> : i \in Invocations, m \in 1..5} :
                         /\ c[2] \in OkCallsOf(c[1], "put_object")
                         /\ calls[c[1]][c[2]].key = k}) = 1

\* A trigger and its re-delivery have both stored their report.
C6_Witness ==
    \E i, j \in Invocations :
        /\ i # j
        /\ event[i] = event[j]
        /\ OkCallsOf(i, "put_object") # {}
        /\ OkCallsOf(j, "put_object") # {}
        /\ Cardinality(DOMAIN store) = 2

\* C7: when a run is Completed, the report key in its result is the key of
\* its successful put into REPORTS_BUCKET, and the store holds under that key
\* the body that was put.
C7_ReturnedKeyIsStoredKey ==
    \A i \in Invocations :
        pc[i] = "Completed" =>
            /\ result[i].kind = "returned"
            /\ result[i].report_key \in DOMAIN store
            /\ \E m \in OkCallsOf(i, "put_object") :
                  /\ calls[i][m].bucket = REPORTS_BUCKET
                  /\ calls[i][m].key = result[i].report_key
                  /\ calls[i][m].payload = store[result[i].report_key]

\* A run is Completed while the store also holds another run's artifact.
C7_Witness ==
    \E i, j \in Invocations :
        /\ i # j
        /\ pc[i] = "Completed"
        /\ report_key[j] \in DOMAIN store

\* C8: a call that raised is the last call of its run; the run is Failed, its
\* outcome is the raised exception, whose type is the reason the call failed
\* with and whose frame is the function of the stage the run was in; and a
\* run is Failed only by such a call.
C8_FailureIsTerminal ==
    \A i \in Invocations :
        /\ \A k \in DOMAIN calls[i] :
              ~calls[i][k].ok =>
                 /\ k = Len(calls[i])
                 /\ pc[i] = "Failed"
                 /\ result[i].kind = "raised"
                 /\ result[i].errorType = calls[i][k].errorType
                 /\ result[i].raisedIn = FrameOf(calls[i][k].op)
                 /\ Len(stages[i]) >= 2
                 /\ stages[i][Len(stages[i])] = "Failed"
                 /\ stages[i][Len(stages[i]) - 1] = StageOfFrame(result[i].raisedIn)
        /\ pc[i] = "Failed" =>
              /\ calls[i] # << >>
              /\ ~calls[i][Len(calls[i])].ok

\* A run failed in Persisting, with Notifying still ahead of it.
C8_Witness ==
    \E i \in Invocations :
        /\ pc[i] = "Failed"
        /\ result[i].errorType = "StoreUnavailable"
        /\ result[i].raisedIn = "save_report_to_s3"

\* C9: a run calls each operation at most once: one load of the reference,
\* one load of the current dataset, one analysis, one put, one send, also
\* when the call raised.
C9_NoRetry ==
    \A i \in Invocations :
        /\ Cardinality(RefLoads(i)) <= 1
        /\ Cardinality(CurLoads(i)) <= 1
        /\ Cardinality(CallsOf(i, "report_run")) <= 1
        /\ Cardinality(CallsOf(i, "put_object")) <= 1
        /\ Cardinality(CallsOf(i, "send_raw_email")) <= 1

\* The load of the reference dataset raised and the run has ended.
C9_Witness ==
    \E i \in Invocations :
        /\ pc[i] = "Failed"
        /\ RefLoads(i) = {1}
        /\ ~calls[i][1].ok

\* The handler run alone, as a function of its event, of the key it drew, of
\* the verdict its analysis gave and of what its calls came back with.
FirstMatch(ev) ==
    IF MatchingRecords(ev) = 0 THEN 0
    ELSE CHOOSE k \in DOMAIN ev :
            /\ ev[k].bucket = CUR_DATA_BUCKET
            /\ \A j \in 1..(k - 1) : ev[j].bucket # CUR_DATA_BUCKET

SoloPlan(ev, key, drift) ==
    LET rec == ev[FirstMatch(ev)]
        ref == DataFrame(REF_DATA_BUCKET, ref_data_key)
        cur == DataFrame(rec.bucket, rec.key)
        html == get_html([reference_data |-> ref, current_data |-> cur,
                          dataset_drift |-> drift])
        fine == Returned("none")
    IN <<Call("get_object", REF_DATA_BUCKET, ref_data_key, NoBody, fine),
         Call("get_object", rec.bucket, rec.key, NoBody, fine),
         Call("report_run", "none", "none", NoBody, fine),
         Call("put_object", REPORTS_BUCKET, key, html, fine),
         Call("send_raw_email", "none", "data_quality_report.html",
              encode_utf8(html), fine)>>

SoloCalls(ev, key, drift, outs) ==
    IF FirstMatch(ev) = 0 THEN << >>
    ELSE [k \in 1..Len(outs) |->
            [SoloPlan(ev, key, drift)[k] EXCEPT !.ok = outs[k].ok,
                                         !.errorType = outs[k].errorType]]

SoloResult(ev, key, drift, outs) ==
    IF FirstMatch(ev) = 0 THEN NoFilesResult
    ELSE IF outs # << >> /\ ~outs[Len(outs)].ok
         THEN UnhandledException(outs[Len(outs)].errorType,
                                 FrameOf(SoloPlan(ev, key, drift)[Len(outs)].op))
         ELSE IF Len(outs) = 5 THEN ProcessedResult(key, "deliveryReceipt")
              ELSE NoResult

SoloEnded(ev, outs) ==
    \/ FirstMatch(ev) = 0
    \/ Len(outs) = 5
    \/ outs # << >> /\ ~outs[Len(outs)].ok

\* C10: whatever the steps of the other invocation, the calls an invocation
\* has made and the result it gives are those of the handler run alone on
\* the same event, with the same key drawn and the same answers to its calls.
C10_RunsIndependent ==
    \A i \in Invocations :
        LET outs == [k \in DOMAIN calls[i] |->
                        [ok |-> calls[i][k].ok,
                         errorType |-> calls[i][k].errorType]]
        IN /\ Len(calls[i]) <= 5
           /\ \A k \in 1..(Len(calls[i]) - 1) : calls[i][k].ok
           /\ calls[i] = SoloCalls(event[i], report_key[i],
                                   report[i].dataset_drift, outs)
           /\ pc[i] \in Terminal =>
                 /\ SoloEnded(event[i], outs)
                 /\ result[i] = SoloResult(event[i], report_key[i],
                                         report[i].dataset_drift, outs)
           /\ pc[i] \notin Terminal => result[i] = NoResult

\* Both invocations are inside the pipeline at once, each with its report
\* already in the store.
C10_Witness ==
    /\ pc[1] = "Notifying"
    /\ pc[2] = "Notifying"
    /\ Cardinality(DOMAIN store) = 2


\* C11 (as claimed): the verdict of an analysis is drifted exactly when the
\* share of drifted columns exceeds the share threshold the caller configured.
C11_DriftIffShareExceedsConfig ==
    analysis.done =>
        (analysis.dataset_drift <=>
            analysis.number_of_drifted_columns * 100 >
                analysis.number_of_columns * analysis.share_config)


\* C13: no call is made for a record of another bucket and skipping raises
\* nothing; the loop never passes over a record of the expected bucket, so a
\* batch with such a record is never answered with the no-op result, and
\* the run that is started is the run of the first such record, however
\* many other records precede it, through every stage when no call raises.
C13_MixedBatch ==
    \A i \in Invocations :
        LET m == FirstMatch(event[i])
        IN /\ \A k \in DOMAIN calls[i] : calls[i][k].bucket # OtherBucket
           /\ pc[i] = "Received" => (calls[i] = << >> /\ result[i] = NoResult)
           /\ (pc[i] # "idle" /\ m > 0) =>
                 /\ idx[i] <= m
                 /\ pc[i] # "Ignored"
                 /\ pc[i] # "Received" => idx[i] = m
                 /\ \A k \in CurLoads(i) :
                       /\ calls[i][k].bucket = event[i][m].bucket
                       /\ calls[i][k].key = event[i][m].key
                 /\ pc[i] = "Completed" => stages[i] = StageOrder

\* A matching record that came last in its batch, after another record, has
\* been processed to the end.
C13_Witness ==
    \E i \in Invocations :
        /\ Len(event[i]) >= 2
        /\ FirstMatch(event[i]) = Len(event[i])
        /\ pc[i] = "Completed"

\* C14: an invocation the runtime has started reaches a terminal outcome (a
\* returned result or a raised exception), given that the handler keeps
\* running and each blocking call returns or raises.
C14_Terminates == (pc[1] # "idle") ~> (pc[1] \in Terminal)

\* The invocation of a batch of two records has ended after all five calls.
C14_Witness ==
    /\ pc[1] \in Terminal
    /\ Len(event[1]) = 2
    /\ Len(calls[1]) = 5

\* C15: a run that has reached the analysis has made exactly two loads
\* before it, the first of (REF_DATA_BUCKET, 'ref.csv') and the second of the
\* bucket and key of the triggering record, and the analysis was given the
\* first as reference and the second as current dataset.
C15_LoadsThenAnalysis ==
    \A i \in Invocations :
        (pc[i] \notin {"idle", "Received", "Ignored", "LoadingRef", "LoadingCur"}
         /\ FailedCallsOf(i, "get_object") = {}) =>
            LET rec == event[i][idx[i]]
            IN /\ CallsOf(i, "get_object") = {1, 2}
               /\ calls[i][1].bucket = REF_DATA_BUCKET
               /\ calls[i][1].key = ref_data_key
               /\ calls[i][2].bucket = rec.bucket
               /\ calls[i][2].key = rec.key
               /\ rec.bucket = CUR_DATA_BUCKET
               /\ CallsOf(i, "report_run") \subseteq {3}
               /\ reference_data[i] = DataFrame(REF_DATA_BUCKET, ref_data_key)
               /\ current_data[i] = DataFrame(rec.bucket, rec.key)
               /\ OkCallsOf(i, "report_run") # {} =>
                     /\ report[i].reference_data = reference_data[i]
                     /\ report[i].current_data = current_data[i]

\* The analysis of a run triggered by the second record of its batch has
\* returned.
C15_Witness ==
    \E i \in Invocations :
        /\ pc[i] = "Rendering"
        /\ idx[i] = 2
        /\ OkCallsOf(i, "report_run") = {3}

\* C16: the attachment of every send of a run is the utf-8 encoding of the
\* document the run put in the store under its report key, which is the one
\* rendering of the run's report.
C16_AttachmentIsStoredDocument ==
    \A i \in Invocations :
        \A k \in CallsOf(i, "send_raw_email") :
            /\ report_key[i] \in DOMAIN store
            /\ calls[i][k].payload.encoding = "utf-8"
            /\ store[report_key[i]].encoding = "str"
            /\ calls[i][k].payload.report = store[report_key[i]].report
            /\ store[report_key[i]] = get_html(report[i])
            /\ \E m \in OkCallsOf(i, "put_object") :
                  /\ m < k
                  /\ calls[i][m].payload = store[report_key[i]]

\* A report with the verdict drifted has been stored and mailed.
C16_Witness ==
    \E i \in Invocations :
        /\ OkCallsOf(i, "send_raw_email") # {}
        /\ report[i].dataset_drift

\* C17: two ended invocations of the same event whose analyses gave different
\* verdicts, and whose calls were answered alike, made the same calls (but for
\* the report key and the document), went through the same stages and gave
\* the same outcome (but for the report key); a Completed one says 'Data
\* drift detected, ...' whatever the verdict.
C17_VerdictDoesNotSteer ==
    \A i, j \in Invocations :
        ( /\ i # j
          /\ pc[i] \in Terminal /\ pc[j] \in Terminal
          /\ event[i] = event[j]
          /\ OkCallsOf(i, "report_run") # {} /\ OkCallsOf(j, "report_run") # {}
          /\ report[i].dataset_drift # report[j].dataset_drift
          /\ \A k \in DOMAIN calls[i] \cap DOMAIN calls[j] :
                /\ calls[i][k].ok = calls[j][k].ok
                /\ calls[i][k].errorType = calls[j][k].errorType ) =>
            /\ pc[i] = pc[j]
            /\ stages[i] = stages[j]
            /\ Len(calls[i]) = Len(calls[j])
            /\ \A k \in DOMAIN calls[i] :
                  /\ calls[i][k].op = calls[j][k].op
                  /\ calls[i][k].bucket = calls[j][k].bucket
                  /\ calls[i][k].op # "put_object" => calls[i][k].key = calls[j][k].key
            /\ result[i].kind = result[j].kind
            /\ result[i].statusCode = result[j].statusCode
            /\ result[i].message = result[j].message
            /\ result[i].errorType = result[j].errorType
            /\ result[i].raisedIn = result[j].raisedIn
            /\ pc[i] = "Completed" =>
                  result[i].message = "Data drift detected, report generated, saved to S3, and emailed successfully"

\* Two invocations of the same event are Completed, one analysis having found
\* drift and the other not.
C17_Witness ==
    \E i, j \in Invocations :
        /\ pc[i] = "Completed" /\ pc[j] = "Completed"
        /\ event[i] = event[j]
        /\ report[i].dataset_drift /\ ~report[j].dataset_drift

====
